---- MODULE Spec2Model ----
(***************************************************************************)
(* Model of the gnss-rtk PVT solver: the per-epoch pipeline of             *)
(* Solver::resolve (src/src/solver.rs) together with the pieces it calls:  *)
(* the signal filters, the orbit stage, the Bancroft bootstrap, the        *)
(* elevation trimming, Input::new, the navigation filter and the solution  *)
(* validator.                                                              *)
(*                                                                         *)
(* Floating point quantities are carried as small integers.  The results   *)
(* of the matrix kernels (the estimate, the dilutions of precision, a      *)
(* failed inversion, a NaN, the Bancroft outcome) are functions of the     *)
(* real-valued satellite geometry of the epoch; that geometry is an input  *)
(* of the call, drawn from the set Geometries.  Matrices the kernels store *)
(* (Q, P) are kept as terms over the rows and weights they are built from. *)
(***************************************************************************)
EXTENDS Integers, Sequences, FiniteSets, TLC

\* ------------------------------------------------------------------ bounds

\* largest pool handed to resolve (candidates carry the PRNs 1..n)
MaxPool == 5
\* sampling epochs are 1..MaxT
MaxT == 2
\* number of resolve calls in one run
MaxCalls == 3
\* pseudoranges, group delays and clock corrections handed to tx_epoch, as
\* durations: -MaxDelay..MaxDelay
MaxDelay == 2
\* innovation thresholds on the code residuals: 0..MaxThreshold
MaxThreshold == 3
\* components of the vectors handed to lorentz_4_4: -MaxCoord..MaxCoord
MaxCoord == 1

\* ------------------------------------------------------------------ helpers

\* Option<T>: None is the empty sequence, Some(v) the one-element sequence
None == << >>
Some(v) == << v >>
IsSome(o) == o # << >>
IsNone(o) == o = << >>
Unwrap(o) == o[1]
UnwrapOr(o, d) == IF o = << >> THEN d ELSE o[1]


\* a / b of two floats, kept as the pair it is computed from (b may be 0 or
\* negative: f64 division never traps)
Quot(a, b) == [num |-> a, den |-> b]
Zero == Quot(0, 1)
Abs(x) == IF x < 0 THEN -x ELSE x
Vector3(x, y, z) == << x, y, z >>
Vector3Default == << 0, 0, 0 >>
VelocityDefault == << Zero, Zero, Zero >>

\* the elements of a set of integers, ascending
RECURSIVE Ascending(_)
Ascending(set) ==
    IF set = {} THEN << >>
    ELSE LET m == CHOOSE x \in set : \A y \in set : x <= y
         IN << m >> \o Ascending(set \ { m })

Reverse(s) == [ i \in 1..Len(s) |-> s[Len(s) + 1 - i] ]

\* stable insertion of the index x into the index sequence s, which is sorted
\* by key
RECURSIVE InsertSorted(_, _, _)
InsertSorted(s, x, key) ==
    IF s = << >> THEN << x >>
    ELSE IF key[x] < key[s[Len(s)]]
         THEN InsertSorted(SubSeq(s, 1, Len(s) - 1), x, key) \o << s[Len(s)] >>
         ELSE Append(s, x)

\* the indices 1..n in the order a stable sort by ascending key leaves them
RECURSIVE SortedIndices(_, _)
SortedIndices(n, key) ==
    IF n = 0 THEN << >>
    ELSE InsertSorted(SortedIndices(n - 1, key), n, key)

\* slice::sort_by (a stable sort): s by ascending key, key[i] the key of s[i]
SortByKey(s, key) ==
    LET order == SortedIndices(Len(s), key)
    IN [ i \in 1..Len(s) |-> s[order[i]] ]

\* ------------------------------------------------------------------ configuration

\* Config::preset(Method::SPP), with the fields of the solver's snapshot of
\* Config that resolve reads; apriori and base_station are the arguments of
\* Solver::new
Preset ==
    [ method |-> "SPP",
      interp_order |-> 11,
      sol_type |-> "PositionVelocityTime",
      fixed_altitude |-> None,
      min_snr |-> Some(30),
      min_sv_elev |-> Some(15),
      min_sv_azim |-> None,
      max_sv_azim |-> None,
      min_sv_sunlight_rate |-> None,
      max_tropo_bias |-> 30,
      max_iono_bias |-> 10,
      gdop_threshold |-> None,
      tdop_threshold |-> None,
      filter |-> "LSQ",
      weight_matrix |-> None,
      sv_clock_bias |-> TRUE,
      sv_total_group_delay |-> TRUE,
      relativistic_clock_bias |-> TRUE,
      earth_rotation |-> TRUE,
      apriori |-> None,
      base_station |-> FALSE ]

\* Config::preset: the configuration, or the panic of an arm that has none
preset(method) ==
    CASE method = "SPP" -> [ status |-> "ok", config |-> Some(Preset) ]
      [] method = "PPP" -> [ status |-> "Panic", config |-> None ]

\* the position handed to Solver::new when one is known
InitialPosition == Vector3(10, 20, 30)

\* the configurations and construction arguments that are explored
Configs ==
    { Preset,
      [Preset EXCEPT !.apriori = Some(InitialPosition),
                     !.gdop_threshold = Some(1), !.tdop_threshold = Some(1)],
      [Preset EXCEPT !.gdop_threshold = Some(1), !.filter = "Kalman",
                     !.weight_matrix = Some("MappingFunction"),
                     !.relativistic_clock_bias = FALSE],
      [Preset EXCEPT !.apriori = Some(InitialPosition), !.sol_type = "TimeOnly",
                     !.gdop_threshold = Some(1), !.relativistic_clock_bias = FALSE],
      [Preset EXCEPT !.apriori = Some(InitialPosition), !.fixed_altitude = Some(7),
                     !.min_sv_elev = None, !.min_snr = None,
                     !.relativistic_clock_bias = FALSE],
      [Preset EXCEPT !.sol_type = "TimeOnly", !.fixed_altitude = Some(7),
                     !.filter = "None", !.relativistic_clock_bias = FALSE,
                     !.min_sv_sunlight_rate = Some(1), !.base_station = TRUE] }

\* ------------------------------------------------------------------ inputs

\* what can be wrong with a candidate handed to resolve
Defects == { "nopr", "lowsnr", "notx", "noorb", "eclipsed", "tropo", "iono", "norel" }

\* Candidate::new and its setters: the candidate of SV prn sampled at t.
\*   pr, cpp, ppp  a pseudorange / two-frequency code / two-frequency phase exists
\*   range         the value of the prefered pseudorange
\*   snr           an observation survives the min_snr mask
\*   tx            the transmission time can be computed
\*   orb           the orbit provider knows the SV at t_tx
\*   sunlight      0 in eclipse, 1 in full light (compared with min_sv_sunlight_rate)
\*   tropo_bias, iono_bias   the delays apply_models finds for the candidate
\*   clock_corr    the ClockCorrection, when the candidate was given one (every
\*                 candidate handed to resolve has one)
Candidate(prn, t, defect) ==
    [ sv |-> prn,
      t |-> t,
      t_tx |-> t,
      pr |-> defect # "nopr",
      range |-> 100 * prn + t,
      cpp |-> defect # "nopr",
      ppp |-> defect # "nopr",
      snr |-> defect # "lowsnr",
      tx |-> defect # "notx",
      orb |-> defect # "noorb",
      sunlight |-> IF defect = "eclipsed" THEN 0 ELSE 1,
      tropo_bias |-> IF defect = "tropo" THEN 30 ELSE 2,
      iono_bias |-> IF defect = "iono" THEN 10 ELSE 3,
      clock_corr |-> IF defect = "noclock" THEN None
                     ELSE Some([ duration |-> 5,
                                 needs_relativistic_correction |-> defect # "norel" ]),
      remote_obs |-> << >>,
      state |-> None ]

\* the pool of the SVs 1..n sampled at t, in which either the last candidate
\* or every candidate has the defect
Pool(n, t, defect, last) ==
    [ i \in 1..n |-> Candidate(i, t, IF i = n \/ ~last THEN defect ELSE "none") ]

\* the numerical outcome of the epoch's geometry:
\*   inv       the matrices the filter inverts are invertible
\*   nan       the measurements make the estimate NaN
\*   gdop, pdop, sqrt_q33, sqrt_q43   square roots over Q = (G'G)^-1
\*   x         the estimate (dx, dy, dz, c.dt) of the filter
\*   banc      outcome of the Bancroft bootstrap on this geometry
Nominal ==
    [ inv |-> TRUE, nan |-> FALSE, gdop |-> 1, pdop |-> 1, sqrt_q33 |-> 1,
      sqrt_q43 |-> 1, x |-> << 1, 1, 1, 1 >>, banc |-> "ok" ]

Geometries ==
    { Nominal,
      [Nominal EXCEPT !.gdop = 2],
      [Nominal EXCEPT !.sqrt_q43 = 2, !.x = << 2, 3, 4, 2 >>],
      [Nominal EXCEPT !.inv = FALSE],
      [Nominal EXCEPT !.nan = TRUE],
      [Nominal EXCEPT !.banc = "singular"],
      [Nominal EXCEPT !.banc = "imaginary"] }

\* the orders in which a HashMap keyed by SV may be iterated, relative to
\* ascending PRN
HashOrders == { "ascending", "descending" }

\* the inputs of one call: a clean pool of any size under the nominal geometry,
\* a full clean pool under any geometry, a full pool whose last candidate has
\* a defect, a full pool without any pseudorange
Calls ==
    { [ t |-> t, pool |-> Pool(n, t, "none", TRUE), geo |-> Nominal ] :
        t \in 1..MaxT, n \in 0..MaxPool }
    \cup
    { [ t |-> t, pool |-> Pool(MaxPool, t, "none", TRUE), geo |-> g ] :
        t \in 1..MaxT, g \in Geometries }
    \cup
    { [ t |-> t, pool |-> Pool(MaxPool, t, d, TRUE), geo |-> Nominal ] :
        t \in 1..MaxT, d \in Defects }
    \cup
    { [ t |-> t, pool |-> Pool(MaxPool, t, "nopr", FALSE), geo |-> Nominal ] :
        t \in 1..MaxT }

\* ------------------------------------------------------------------ environment

\* elevation and azimuth (degrees) of an SV seen from the apriori position
ElevationOf(prn) == (prn * 23) % 90
AzimuthOf(prn) == (prn * 100) % 360

\* OrbitalStateProvider::next_at: the state of the SV at t_tx, when known
\* (OrbitalState::from_position: no velocity, no attitude yet)
next_at(cd, t_tx) ==
    IF cd.orb
    THEN Some([ position |-> 100 * cd.sv + t_tx, velocity |-> None,
                elevation |-> 0, azimuth |-> 0 ])
    ELSE None

\* OrbitalState::with_elevation_azimuth
with_elevation_azimuth(orbit, sv) ==
    [orbit EXCEPT !.elevation = ElevationOf(sv), !.azimuth = AzimuthOf(sv)]

\* Candidate::transmission_time: (t_tx, dt_tx), or an error
transmission_time(cd) ==
    IF cd.pr /\ cd.tx THEN Some(<< cd.t - 1, 1 >>) ELSE None

\* ------------------------------------------------------------------ candidate/mod.rs

\* Candidate::new with the setters that matter to tx_epoch: pr is the best
\* pseudorange divided by the speed of light, tgd the group delay, clock_corr
\* the duration of the ClockCorrection, when the candidate has them
TxCandidate(t, pr, tgd, clock_corr) ==
    [ t |-> t, t_tx |-> t, dt_tx |-> 0, pr |-> pr, tgd |-> tgd, clock_corr |-> clock_corr ]

\* the candidates handed to tx_epoch
Delays == { None } \cup { Some(d) : d \in -MaxDelay..MaxDelay }
TxCandidates ==
    { TxCandidate(t, pr, tgd, clock_corr) :
        t \in 1..MaxT, pr \in Delays, tgd \in Delays, clock_corr \in Delays }

\* the result of tx_epoch: Ok(()) or the error, and the candidate it leaves
TxResult(status, cd) == [ status |-> status, cd |-> cd ]

\* a tx_epoch that asks for a clock correction whatever the modeling
requires_clock_correction_always(c) == TRUE

\* tx_epoch: "if cfg.modeling.sv_clock_bias"
requires_clock_correction(c) == c.sv_clock_bias

\* Candidate::tx_epoch; the assert! panics
tx_epoch(cd, c) ==
    IF IsNone(cd.pr) THEN TxResult("MissingPseudoRange", cd)
    ELSE
      LET propagated == cd.t - Unwrap(cd.pr)
          delayed == IF c.sv_total_group_delay /\ IsSome(cd.tgd)
                     THEN propagated - Unwrap(cd.tgd)
                     ELSE propagated
      IN
      IF requires_clock_correction(c) /\ IsNone(cd.clock_corr)
      THEN TxResult("UnknownClockCorrection", cd)
      ELSE
        LET t_tx == IF requires_clock_correction(c)
                    THEN delayed - Unwrap(cd.clock_corr)
                    ELSE delayed
        IN IF ~(t_tx < cd.t) THEN TxResult("Panic", cd)
           ELSE TxResult("ok", [cd EXCEPT !.t_tx = t_tx, !.dt_tx = cd.t - t_tx])

\* ------------------------------------------------------------------ results

Err(kind) == [ kind |-> kind, cause |-> "", value |-> 0, sol |-> None ]
InvalidatedSolution(cause, value) ==
    [ kind |-> "InvalidatedSolution", cause |-> cause, value |-> value, sol |-> None ]
Ok(t, solution) ==
    [ kind |-> "Ok", cause |-> "", value |-> 0, sol |-> Some(<< t, solution >>) ]

\* ------------------------------------------------------------------ solver.rs

\* a solver that asks for 4 candidates whatever its configuration
min_sv_required_four(initial, c) == 4

\* a solver that asks for no candidate at all
min_sv_required_none(initial, c) == 0

\* Solver::min_sv_required
min_sv_required(initial, c) ==
    IF IsNone(initial) THEN 4
    ELSE IF c.sol_type = "TimeOnly" THEN 1
    ELSE IF IsSome(c.fixed_altitude) THEN 3
    ELSE 4

\* signal_condition_filter
signal_condition_filter(method, pool) ==
    SelectSeq(pool, LAMBDA cd : CASE method = "SPP" -> cd.pr
                                [] method = "CPP" -> cd.cpp
                                [] method = "PPP" -> cd.ppp)

\* signal_quality_filter
signal_quality_filter(method, min_snr, pool) ==
    SelectSeq(pool, LAMBDA cd : cd.snr)

\* "gather (matching) observations on remote site": base_observations once
\* the base station (when there is one) has observed every candidate
base_station_gather(base_station, base_observations, pool) ==
    IF base_station
    THEN [ sv \in DOMAIN base_observations \cup { pool[i].sv : i \in 1..Len(pool) } |->
             (IF sv \in DOMAIN base_observations THEN base_observations[sv] ELSE << >>)
             \o (IF sv \in { pool[i].sv : i \in 1..Len(pool) } THEN << sv >> ELSE << >>) ]
    ELSE base_observations

\* the join of resolve: every candidate found in base_observations gets the
\* remote observations gathered for its SV
base_station_join(base_observations, pool) ==
    [ i \in 1..Len(pool) |->
        IF pool[i].sv \in DOMAIN base_observations
        THEN [pool[i] EXCEPT !.remote_obs = base_observations[pool[i].sv]]
        ELSE pool[i] ]

\* a resolve that keeps the gathered observations
clear_base_observations_kept(S) == S

\* self.base_observations.clear()
clear_base_observations(S) == [S EXCEPT !.base_observations = << >>]

\* Solver::rotate_position
rotate_position(rotate, interpolated, dt_tx) ==
    IF rotate
    THEN [interpolated EXCEPT !.position = interpolated.position + dt_tx]
    ELSE interpolated

\* Solver::velocities
velocities(prev_sv_state, t_tx, sv, interpolated) ==
    IF sv \in DOMAIN prev_sv_state
    THEN [interpolated EXCEPT !.velocity =
            Some(Quot(interpolated.position - prev_sv_state[sv].position,
                      t_tx - prev_sv_state[sv].t_tx))]
    ELSE interpolated

\* an orbit stage that applies the masks whatever the solver knows
masks_apply_always(S) == TRUE

\* the orbit stage: "if let Some(initial) = &self.initial", else "not apply
\* criterias yet"
masks_apply(S) == IsSome(S.initial)

\* the closure of the orbit stage of resolve: the candidate with its state,
\* the candidate as it came (no orbit), or None (dropped)
orbit_of(S, c, cd) ==
    LET tx == transmission_time(cd) IN
    IF IsNone(tx) THEN None
    ELSE
      LET t_tx == Unwrap(tx)[1]
          dt_tx == Unwrap(tx)[2]
          found == next_at(cd, t_tx)
      IN
      IF IsNone(found) THEN Some(cd)
      ELSE
        LET min_elev == IF masks_apply(S) THEN UnwrapOr(c.min_sv_elev, 0) ELSE 0
            min_azim == IF masks_apply(S) THEN UnwrapOr(c.min_sv_azim, 0) ELSE 0
            max_azim == IF masks_apply(S) THEN UnwrapOr(c.max_sv_azim, 360) ELSE 360
            orbit == IF IsSome(S.initial) THEN with_elevation_azimuth(Unwrap(found), cd.sv)
                     ELSE Unwrap(found)
        IN
        IF orbit.elevation < min_elev THEN None
        ELSE IF orbit.azimuth < min_azim THEN None
        ELSE IF orbit.azimuth > max_azim THEN None
        ELSE Some([cd EXCEPT
                     !.t_tx = t_tx,
                     !.state = Some(velocities(S.prev_sv_state, t_tx, cd.sv,
                                 rotate_position(c.earth_rotation, orbit, dt_tx)))])

\* the orbit stage of resolve (filter_map over the pool)
orbit_stage(S, c, pool) ==
    LET mapped == [ i \in 1..Len(pool) |-> orbit_of(S, c, pool[i]) ]
        kept == SelectSeq(mapped, LAMBDA m : IsSome(m))
    IN [ i \in 1..Len(kept) |-> Unwrap(kept[i]) ]

\* a loop that adds the bias to every flagged candidate that has a state
relativistic_pool_unguarded(c, pool) ==
    [ i \in 1..Len(pool) |->
        IF c.relativistic_clock_bias
           /\ IsSome(pool[i].state)
           /\ Unwrap(pool[i].clock_corr).needs_relativistic_correction
        THEN [pool[i] EXCEPT !.clock_corr = Some([Unwrap(@) EXCEPT !.duration = @ + 1])]
        ELSE pool[i] ]

\* the relativistic clock bias loop of resolve, on the pool: the bias is added
\* to the clock correction of a candidate that has a velocity and is flagged
relativistic_pool(c, pool) ==
    [ i \in 1..Len(pool) |->
        IF c.relativistic_clock_bias
           /\ IsSome(pool[i].state)
           /\ IsSome(Unwrap(pool[i].state).velocity)
           /\ Unwrap(pool[i].clock_corr).needs_relativistic_correction
        THEN [pool[i] EXCEPT !.clock_corr = Some([Unwrap(@) EXCEPT !.duration = @ + 1])]
        ELSE pool[i] ]

\* the same loop, on prev_sv_state ("update for next time")
relativistic_sv_state(c, prev_sv_state, pool) ==
    LET seen == { i \in 1..Len(pool) :
                    c.relativistic_clock_bias /\ IsSome(pool[i].state) }
        svs == { pool[i].sv : i \in seen }
    IN [ sv \in DOMAIN prev_sv_state \cup svs |->
           IF sv \in svs
           THEN LET i == CHOOSE j \in seen : pool[j].sv = sv
                IN [ t_tx |-> pool[i].t_tx, position |-> Unwrap(pool[i].state).position ]
           ELSE prev_sv_state[sv] ]

\* the eclipse filter of resolve
eclipse_filter(c, pool) ==
    IF IsSome(c.min_sv_sunlight_rate)
    THEN SelectSeq(pool, LAMBDA cd : IF IsSome(cd.state)
                                  THEN ~(cd.sunlight < Unwrap(c.min_sv_sunlight_rate))
                                  ELSE TRUE)
    ELSE pool

\* ------------------------------------------------------------------ bancroft.rs

\* a metric without signature
m_matrix_identity ==
    [ i \in 1..4 |-> [ j \in 1..4 |-> IF i = j THEN 1 ELSE 0 ] ]

\* Bancroft::m_matrix
m_matrix ==
    [ i \in 1..4 |-> [ j \in 1..4 |-> IF i = j THEN (IF i = 4 THEN -1 ELSE 1) ELSE 0 ] ]

\* lorentz_4_4: the single entry of a.transpose() * m * b
lorentz_4_4(a, b, m) ==
    LET a_m == [ j \in 1..4 |->
                   a[1] * m[1][j] + a[2] * m[2][j] + a[3] * m[3][j] + a[4] * m[4][j] ]
    IN a_m[1] * b[1] + a_m[2] * b[2] + a_m[3] * b[3] + a_m[4] * b[4]

\* the position the bootstrap resolves
BancroftPosition == Vector3(11, 21, 31)

\* a Bancroft::new that takes any 4 candidates
bancroft_new_unchecked(pool) ==
    IF Len(pool) < 4 THEN "NotEnoughInitializationCandidates" ELSE "ok"

\* Bancroft::new: needs 4 candidates that have an orbit, a pseudorange and a
\* clock correction
bancroft_new(pool) ==
    IF Len(pool) < 4 THEN "NotEnoughInitializationCandidates"
    ELSE IF Cardinality({ i \in 1..Len(pool) :
                            /\ IsSome(pool[i].state)
                            /\ pool[i].pr
                            /\ IsSome(pool[i].clock_corr) }) < 4
         THEN "BancroftError"
         ELSE "ok"

\* Bancroft::resolve
bancroft_resolve(geo) ==
    CASE geo.banc = "singular" -> "MatrixInversion"
      [] geo.banc = "imaginary" -> "BancroftImaginarySolution"
      [] OTHER -> "ok"

\* the bootstrap of resolve: the error of Bancroft, or "ok"
bootstrap(pool, geo) ==
    IF bancroft_new(pool) # "ok" THEN bancroft_new(pool) ELSE bancroft_resolve(geo)

\* "update attitudes" after the bootstrap
update_attitudes(pool) ==
    [ i \in 1..Len(pool) |->
        IF IsSome(pool[i].state)
        THEN [pool[i] EXCEPT !.state = Some(with_elevation_azimuth(Unwrap(@), pool[i].sv))]
        ELSE pool[i] ]

\* ------------------------------------------------------------------ solver.rs

\* the two retains on the modelled delays
bias_filter(c, pool) ==
    LET tropo == SelectSeq(pool, LAMBDA cd : cd.tropo_bias < c.max_tropo_bias)
    IN SelectSeq(tropo, LAMBDA cd : cd.iono_bias < c.max_iono_bias)

\* the sort key of retain_best_elevation: a candidate without state sorts
\* before every candidate with one
elevation_key(cd) == IF IsSome(cd.state) THEN Unwrap(cd.state).elevation ELSE -1

\* a trimming that keeps the first candidates of the pool
retain_best_elevation_first(pool, min_required) == SubSeq(pool, 1, min_required)

\* Solver::retain_best_elevation
retain_best_elevation(pool, min_required) ==
    LET sorted == SortByKey(pool, [ i \in 1..Len(pool) |-> elevation_key(pool[i]) ])
        total == Len(sorted)
    IN IF min_required = 1
       THEN SubSeq(sorted, total, total)
       ELSE SubSeq(sorted, IF total > min_required THEN total - min_required + 1 ELSE 1, total)

\* pool.sort_by(prn)
sort_by_prn(pool) == SortByKey(pool, [ i \in 1..Len(pool) |-> pool[i].sv ])

\* ------------------------------------------------------------------ cfg.rs

\* 1 / sigma^2 for sigma = a + b.exp(-el / c): grows with the elevation
mapping_function(el) == 1 + el

\* SolverOpts::weight_matrix: the diagonal, from the elevations in the order
\* they are handed over
weight_matrix(c, sv_elev) ==
    [ i \in 1..Len(sv_elev) |->
        IF IsSome(c.weight_matrix) /\ i - 1 < Len(sv_elev) - 1
        THEN mapping_function(sv_elev[i])
        ELSE 1 ]

\* ------------------------------------------------------------------ navigation/mod.rs

\* Input::new: the index of the candidate that fills row i (rows 0..7)
row_index(i, len, sol_type) ==
    IF i >= len
    THEN IF sol_type = "TimeOnly" THEN 0 ELSE i - len
    ELSE i

\* Input::new: what stops the assembly at row i
row_fault(c, cd, i) ==
    LET index == row_index(i, Len(cd), c.sol_type) IN
    IF index >= Len(cd) THEN "Panic"
    ELSE IF IsNone(cd[index + 1].state) THEN "UnresolvedState"
    ELSE IF c.method = "SPP" /\ ~cd[index + 1].pr THEN "MissingPseudoRange"
    ELSE IF c.method # "SPP" /\ ~cd[index + 1].cpp THEN "PseudoRangeCombination"
    ELSE "ok"

\* HashMap::values of the per-SV map, in the order the map is iterated
hash_values(sv, order) ==
    LET keys == IF order = "ascending" THEN Ascending(DOMAIN sv)
                ELSE Reverse(Ascending(DOMAIN sv))
    IN [ i \in 1..Len(keys) |-> sv[keys[i]] ]

\* Input::new
input_new(apriori, c, cd, order) ==
    LET faults == { i \in 0..7 : row_fault(c, cd, i) # "ok" }
        first == CHOOSE i \in faults : \A j \in faults : i <= j
        at(i) == cd[row_index(i, Len(cd), c.sol_type) + 1]
        sv == [ prn \in { cd[i].sv : i \in 1..Len(cd) } |->
                  LET k == CHOOSE i \in 1..Len(cd) : cd[i].sv = prn
                  IN [ azimuth |-> Unwrap(cd[k].state).azimuth,
                       elevation |-> Unwrap(cd[k].state).elevation,
                       tropo_bias |-> cd[k].tropo_bias,
                       iono_bias |-> cd[k].iono_bias ] ]
        values == hash_values(sv, order)
        elevations == [ i \in 1..Len(values) |-> values[i].elevation ]
    IN
    IF faults # {}
    THEN [ status |-> row_fault(c, cd, first), y |-> << >>, g |-> << >>, w |-> << >>,
           sv |-> << >> ]
    ELSE [ status |-> "ok",
           y |-> [ i \in 1..8 |->
                     [ sv |-> at(i - 1).sv,
                       models |-> at(i - 1).tropo_bias + at(i - 1).iono_bias
                                  - Unwrap(at(i - 1).clock_corr).duration ] ],
           g |-> [ i \in 1..8 |-> at(i - 1).sv ],
           w |-> weight_matrix(c, elevations),
           sv |-> sv ]

\* ------------------------------------------------------------------ navigation/filter.rs

\* Output::default()
DefaultOutput ==
    [ tdop |-> 0, gdop |-> 0, pdop |-> 0, q |-> << >>,
      state |-> [ kind |-> "Lsq", p |-> << >>, x |-> << 0, 0, 0, 0 >>, nan |-> FALSE ] ]

FilterErr(e) == [ status |-> e, out |-> DefaultOutput ]
FilterOk(out) == [ status |-> "ok", out |-> out ]

\* Filter::lsq_resolve
lsq_resolve(input, p_state, geo) ==
    IF IsSome(p_state) /\ Unwrap(p_state).kind = "Lsq"
    THEN IF ~geo.inv THEN FilterErr("MatrixInversionError")
         ELSE FilterOk([ gdop |-> geo.gdop, pdop |-> geo.pdop, tdop |-> geo.sqrt_q43,
                         q |-> [ inverse |-> TRUE, g |-> input.g ],
                         state |-> [ kind |-> "Lsq",
                                     p |-> Append(Unwrap(p_state).p, [ g |-> input.g, w |-> input.w ]),
                                     x |-> geo.x,
                                     nan |-> geo.nan \/ Unwrap(p_state).nan ] ])
    ELSE IF ~geo.inv THEN FilterErr("MatrixInversionError")
         ELSE IF geo.nan THEN FilterErr("TimeIsNan")
         ELSE FilterOk([ gdop |-> geo.gdop, pdop |-> geo.pdop, tdop |-> geo.sqrt_q43,
                         q |-> [ inverse |-> TRUE, g |-> input.g ],
                         state |-> [ kind |-> "Lsq",
                                     p |-> << [ g |-> input.g, w |-> input.w ] >>,
                                     x |-> geo.x,
                                     nan |-> FALSE ] ])

\* Filter::kf_resolve; with a prior state Q is G'G itself, whose first four
\* diagonal entries sum to 16 (8 unit rows and 8 ones), the first three to 8,
\* and whose entry (4, 3) is 1
kf_resolve(input, p_state, geo) ==
    IF IsSome(p_state) /\ Unwrap(p_state).kind = "Kf"
    THEN IF ~geo.inv THEN FilterErr("MatrixInversionError")
         ELSE FilterOk([ gdop |-> 4, pdop |-> 3, tdop |-> 1,
                         q |-> [ inverse |-> FALSE, g |-> input.g ],
                         state |-> [ kind |-> "Kf",
                                     p |-> Append(Unwrap(p_state).p, [ g |-> input.g, w |-> input.w ]),
                                     x |-> geo.x,
                                     nan |-> geo.nan \/ Unwrap(p_state).nan ] ])
    ELSE IF ~geo.inv THEN FilterErr("MatrixInversionError")
         ELSE IF geo.nan THEN FilterErr("TimeIsNan")
         ELSE FilterOk([ gdop |-> geo.gdop, pdop |-> geo.pdop, tdop |-> geo.sqrt_q43,
                         q |-> [ inverse |-> TRUE, g |-> input.g ],
                         state |-> [ kind |-> "Kf",
                                     p |-> << [ g |-> input.g, w |-> input.w ] >>,
                                     x |-> geo.x,
                                     nan |-> FALSE ] ])

\* a Filter::resolve that hands the carried state to the LSQ filter in every
\* mode
filter_resolve_carrying(filter, input, p_state, geo) == lsq_resolve(input, p_state, geo)

\* Filter::resolve
filter_resolve(filter, input, p_state, geo) ==
    CASE filter = "None" -> lsq_resolve(input, None, geo)
      [] filter = "LSQ" -> lsq_resolve(input, p_state, geo)
      [] filter = "Kalman" -> kf_resolve(input, p_state, geo)

\* ------------------------------------------------------------------ navigation/mod.rs

\* a Navigation::resolve that commits the filter state at once
nav_resolve_committing(S, c, input, geo) ==
    LET r == filter_resolve(c.filter, input, S.filter_state, geo) IN
    [ status |-> r.status,
      out |-> r.out,
      S |-> IF r.status = "ok"
            THEN [S EXCEPT !.pending = r.out, !.filter_state = Some(r.out.state)]
            ELSE S ]

\* Navigation::resolve: the filter runs from the carried state; its output is
\* recorded as pending
nav_resolve(S, c, input, geo) ==
    LET r == filter_resolve(c.filter, input, S.filter_state, geo) IN
    [ status |-> r.status,
      out |-> r.out,
      S |-> IF r.status = "ok" THEN [S EXCEPT !.pending = r.out] ELSE S ]

\* Navigation::validate: the pending state becomes the carried state
nav_validate(S) == [S EXCEPT !.filter_state = Some(S.pending.state)]

\* ------------------------------------------------------------------ validator.rs

\* Validator::new; rho is the distance between the SV and the estimate, along
\* the one axis on which SV positions are carried
validator_new(apriori_ecef, pool, input, output) ==
    [ gdop |-> output.gdop,
      tdop |-> output.tdop,
      residuals |->
        [ idx \in 1..Len(pool) |->
            LET cd == pool[idx]
                sv == input.sv[cd.sv]
                x == apriori_ecef[1] + output.state.x[1]
                rho == Abs(Unwrap(cd.state).position - x)
                dt == Unwrap(cd.clock_corr).duration - output.state.x[4]
            IN Quot(cd.range - rho + dt - sv.tropo_bias - sv.iono_bias, input.w[idx]) ] ]

\* a validator that does not look at gdop
validate_no_gdop(v, c) ==
    IF c.sol_type # "TimeOnly" /\ IsSome(c.tdop_threshold) /\ v.tdop > Unwrap(c.tdop_threshold)
    THEN [ cause |-> "TDOPOutlier", value |-> v.tdop ]
    ELSE [ cause |-> "ok", value |-> 0 ]

\* Validator::validate: "ok" or the invalidation cause
validate(v, c) ==
    IF c.sol_type # "TimeOnly" /\ IsSome(c.gdop_threshold) /\ v.gdop > Unwrap(c.gdop_threshold)
    THEN [ cause |-> "GDOPOutlier", value |-> v.gdop ]
    ELSE IF c.sol_type # "TimeOnly" /\ IsSome(c.tdop_threshold) /\ v.tdop > Unwrap(c.tdop_threshold)
    THEN [ cause |-> "TDOPOutlier", value |-> v.tdop ]
    ELSE [ cause |-> "ok", value |-> 0 ]

\* ------------------------------------------------------------------ solver.rs

\* "Form Solution": the PVTSolution of the filter output around the apriori
form_solution(x0, input, output) ==
    [ position |-> Vector3(output.state.x[1] + x0[1], output.state.x[2] + x0[2],
                           output.state.x[3] + x0[3]),
      velocity |-> VelocityDefault,
      dt |-> output.state.x[4],
      d_dt |-> Zero,
      nan |-> output.state.nan,
      gdop |-> output.gdop,
      tdop |-> output.tdop,
      pdop |-> output.pdop,
      sv |-> input.sv,
      q |-> output.q ]

\* a first solution that is not stored
first_solution_unstored(S, t, x0, solution) == S

\* a first solution that is committed to the navigation filter
first_solution_committing(S, t, x0, solution) ==
    [S EXCEPT !.prev_vdop = Some([ q |-> solution.q, at |-> x0 ]),
              !.prev_solution = Some(<< t, solution >>),
              !.filter_state = Some(S.pending.state)]

\* "First solution": the fix is stored, never returned
first_solution(S, t, x0, solution) ==
    [S EXCEPT !.prev_vdop = Some([ q |-> solution.q, at |-> x0 ]),
              !.prev_solution = Some(<< t, solution >>)]

\* a resolve that computes neither velocity nor drift
finite_difference_none(prev_solution, t, solution) == solution

\* velocity and clock drift by finite difference with prev_solution
finite_difference(prev_solution, t, solution) ==
    IF IsSome(prev_solution)
    THEN LET prev_t == Unwrap(prev_solution)[1]
             prev == Unwrap(prev_solution)[2]
             dt_s == t - prev_t
         IN [solution EXCEPT
               !.velocity = [ k \in 1..3 |-> Quot(solution.position[k] - prev.position[k], dt_s) ],
               !.d_dt = Quot(prev.dt - solution.dt, dt_s)]
    ELSE solution

\* a rework that leaves the solution as it is
rework_solution_untouched(pvt, c) == pvt

\* Solver::rework_solution
rework_solution(pvt, c) ==
    LET fixed == IF IsSome(c.fixed_altitude)
                 THEN [pvt EXCEPT !.position[3] = Unwrap(c.fixed_altitude),
                                  !.velocity[3] = Zero]
                 ELSE pvt
    IN IF c.sol_type = "TimeOnly"
       THEN [fixed EXCEPT !.position = Vector3Default, !.velocity = VelocityDefault]
       ELSE fixed

\* what a call of resolve leaves behind: the solver's fields, the value
\* returned, whether the call computed a navigation fix, whether it ran the
\* Bancroft bootstrap, the residuals of its validator (when it built one)
Outcome(S, r, fix, banc) ==
    [ S |-> S, ret |-> r, fix |-> fix, banc |-> banc, residuals |-> << >> ]

\* resolve, from the validator on (a previous solution exists)
validated_solution(S, c, t, x0, pool, input, output, solution, banc) ==
    LET validator == validator_new(x0, pool, input, output)
        verdict == validate(validator, c)
    IN
    IF verdict.cause # "ok"
    THEN [Outcome(S, InvalidatedSolution(verdict.cause, verdict.value), TRUE, banc)
            EXCEPT !.residuals = validator.residuals]
    ELSE LET committed == nav_validate(S)
             moved == finite_difference(committed.prev_solution, t, solution)
         IN [Outcome([committed EXCEPT !.prev_solution = Some(<< t, moved >>)],
                     Ok(t, rework_solution(moved, c)), TRUE, banc)
               EXCEPT !.residuals = validator.residuals]

\* resolve, from the navigation input on
navigation(S, c, t, pool, geo, order, banc) ==
    LET x0 == Unwrap(S.initial)
        input == input_new(x0, c, pool, order)
        used == [S EXCEPT !.prev_used = [ i \in 1..Len(pool) |-> pool[i].sv ]]
        nav == nav_resolve(used, c, input, geo)
        solution == form_solution(x0, input, nav.out)
    IN
    IF input.status = "Panic" THEN Outcome(S, Err("Panic"), FALSE, banc)
    ELSE IF input.status # "ok" THEN Outcome(S, Err("MatrixError"), FALSE, banc)
    ELSE IF nav.status # "ok" THEN Outcome(used, Err("NavigationError"), FALSE, banc)
    ELSE IF IsNone(nav.S.prev_solution)
    THEN Outcome(first_solution(nav.S, t, x0, solution),
                 InvalidatedSolution("FirstSolution", 0), TRUE, banc)
    ELSE validated_solution(nav.S, c, t, x0, pool, input, nav.out, solution, banc)

\* a solver that bootstraps in every epoch
needs_bootstrap_always(S) == TRUE

\* resolve: "if self.initial.is_none()", the guard of the Bancroft bootstrap
needs_bootstrap(S) == IsNone(S.initial)

\* resolve, from the bootstrap on
positioning(S, c, t, pool, geo, order, min_required) ==
    LET banc == needs_bootstrap(S)
        boot == IF banc THEN bootstrap(pool, geo) ELSE "ok"
        booted == IF banc THEN update_attitudes(pool) ELSE pool
        seeded == IF banc THEN [S EXCEPT !.initial = Some(BancroftPosition)] ELSE S
        modelled == bias_filter(c, booted)
    IN
    IF boot # "ok" THEN Outcome(S, Err(boot), FALSE, banc)
    ELSE IF Len(modelled) < min_required
    THEN Outcome(seeded, Err("NotEnoughMatchingCandidates"), FALSE, banc)
    ELSE navigation(seeded, c, t,
                    sort_by_prn(retain_best_elevation(modelled, min_required)),
                    geo, order, banc)

\* Solver::resolve
resolve(S, c, t, pool, geo, order) ==
    LET min_required == min_sv_required(S.initial, c)
        conditioned == signal_condition_filter(c.method, pool)
        matching == IF IsSome(c.min_snr)
                    THEN signal_quality_filter(c.method, Unwrap(c.min_snr), conditioned)
                    ELSE conditioned
        gathered == [S EXCEPT !.base_observations =
                                  base_station_gather(c.base_station, @, matching)]
        joined == base_station_join(gathered.base_observations, matching)
        cleared == clear_base_observations(gathered)
        resolved == relativistic_pool(c, orbit_stage(cleared, c, joined))
        updated == [cleared EXCEPT !.prev_sv_state = relativistic_sv_state(c, @, resolved)]
        lit == eclipse_filter(c, resolved)
    IN
    IF Len(pool) < min_required
    THEN Outcome(S, Err("NotEnoughCandidates"), FALSE, FALSE)
    ELSE IF Len(matching) < min_required
    THEN Outcome(S, Err("NotEnoughMatchingCandidates"), FALSE, FALSE)
    ELSE IF Len(lit) < min_required
    THEN Outcome(updated, Err("NotEnoughMatchingCandidates"), FALSE, FALSE)
    ELSE positioning(updated, c, t, lit, geo, order, min_required)

\* ------------------------------------------------------------------ state

VARIABLES
    cfg,                \* Solver::cfg, with the arguments of Solver::new
    initial,            \* Solver::initial
    prev_solution,      \* Solver::prev_solution
    prev_vdop,          \* Solver::prev_vdop
    prev_used,          \* Solver::prev_used
    prev_sv_state,      \* Solver::prev_sv_state
    filter_state,       \* Navigation::filter_state
    pending,            \* Navigation::pending
    base_observations,  \* Solver::base_observations
    panicked,           \* a call of resolve ended in a panic
    ret,                \* what the last call of resolve returned
    call,               \* the last call: whether it computed a fix, whether it
                        \* ran the bootstrap, the residuals of its validator
    calls,              \* number of calls so far
    cand,               \* a candidate on its own, before and after tx_epoch
    tx,                 \* what tx_epoch returned on cand ("none" before it ran)
    args,               \* the arguments of a function called on its own
    result              \* what that function returned (None before it ran)

vars == << cfg, initial, prev_solution, prev_vdop, prev_used, prev_sv_state,
           filter_state, pending, base_observations, panicked, ret, call, calls,
           cand, tx, args, result >>

\* the fields of the solver and the account of its last call
solver_vars == << initial, prev_solution, prev_vdop, prev_used, prev_sv_state,
                  filter_state, pending, base_observations, panicked, ret, call,
                  calls >>

\* the fields of the solver that resolve reads and writes
Solver ==
    [ initial |-> initial, prev_solution |-> prev_solution, prev_vdop |-> prev_vdop,
      prev_used |-> prev_used, prev_sv_state |-> prev_sv_state,
      filter_state |-> filter_state, pending |-> pending,
      base_observations |-> base_observations ]

\* Solver::new and Navigation::new
Constructed ==
    /\ initial = cfg.apriori
    /\ prev_solution = None
    /\ prev_vdop = None
    /\ prev_used = << >>
    /\ prev_sv_state = << >>
    /\ filter_state = None
    /\ pending = DefaultOutput
    /\ base_observations = << >>
    /\ panicked = FALSE
    /\ ret = Err("None")
    /\ call = [ fix |-> FALSE, banc |-> FALSE, residuals |-> << >> ]
    /\ calls = 0

\* a solver under one of the explored configurations, and a candidate that
\* stays as Candidate::new left it
Init ==
    /\ cfg \in Configs
    /\ Constructed
    /\ cand = TxCandidate(1, Some(1), None, Some(0))
    /\ tx = "none"
    /\ args = << >>
    /\ result = None

\* what the calls of resolve the environment can make lead to, from the
\* current state; without configured weights the weight matrix is the
\* identity whatever the hash order
Outcomes ==
    { resolve(Solver, cfg, in.t, in.pool, in.geo, order) :
        in \in Calls,
        order \in IF IsSome(cfg.weight_matrix) THEN HashOrders ELSE { "ascending" } }

\* one call solver.resolve(t, pool)
Resolve ==
    /\ ~panicked
    /\ calls < MaxCalls
    /\ \E r \in Outcomes :
         /\ initial' = r.S.initial
         /\ prev_solution' = r.S.prev_solution
         /\ prev_vdop' = r.S.prev_vdop
         /\ prev_used' = r.S.prev_used
         /\ prev_sv_state' = r.S.prev_sv_state
         /\ filter_state' = r.S.filter_state
         /\ pending' = r.S.pending
         /\ base_observations' = r.S.base_observations
         /\ panicked' = (r.ret.kind = "Panic")
         /\ ret' = r.ret
         /\ call' = [ fix |-> r.fix, banc |-> r.banc, residuals |-> r.residuals ]
    /\ calls' = calls + 1
    /\ UNCHANGED << cfg, cand, tx, args, result >>

Next == Resolve

Spec == Init /\ [][Next]_vars

\* ------------------------------------------------------------------ candidates

\* the modeling flags tx_epoch reads, in any combination
TxConfigs ==
    { [Preset EXCEPT !.sv_clock_bias = clock, !.sv_total_group_delay = tgd] :
        clock \in BOOLEAN, tgd \in BOOLEAN }

\* a candidate as its constructor and setters leave it; cfg is the
\* configuration handed to tx_epoch
TxInit ==
    /\ cfg \in TxConfigs
    /\ Constructed
    /\ cand \in TxCandidates
    /\ tx = "none"
    /\ args = << >>
    /\ result = None

\* one call cand.tx_epoch(&cfg)
TxEpoch ==
    /\ tx # "Panic"
    /\ \E c \in TxConfigs :
         LET r == tx_epoch(cand, c) IN
         /\ cfg' = c
         /\ cand' = r.cd
         /\ tx' = r.status
    /\ UNCHANGED << solver_vars, args, result >>

TxNext == TxEpoch

TxSpec == TxInit /\ [][TxNext]_vars

\* ------------------------------------------------------------------ bancroft

\* the 4-vectors handed to lorentz_4_4
Vectors4 ==
    { << x, y, z, w >> : x \in -MaxCoord..MaxCoord, y \in -MaxCoord..MaxCoord,
                         z \in -MaxCoord..MaxCoord, w \in -MaxCoord..MaxCoord }

\* the vectors of the unit test of lorentz_4_4
TestVectors == << << 1, 2, 3, 4 >>, << 5, 6, 7, 8 >> >>

\* two 4-vectors, of which no product has been taken yet
LorentzInit ==
    /\ cfg = Preset
    /\ Constructed
    /\ cand = TxCandidate(1, Some(1), None, Some(0))
    /\ tx = "none"
    /\ args \in (Vectors4 \X Vectors4) \cup { TestVectors, Reverse(TestVectors) }
    /\ result = None

\* one call lorentz_4_4(a, b, &m) with the m of the Bancroft solver
Lorentz ==
    /\ result = None
    /\ result' = Some(lorentz_4_4(args[1], args[2], m_matrix))
    /\ UNCHANGED << cfg, solver_vars, cand, tx, args >>

LorentzNext == Lorentz

LorentzSpec == LorentzInit /\ [][LorentzNext]_vars

\* ------------------------------------------------------------------ properties

\* the number of candidates an epoch needs, as the documentation states it
Required ==
    IF IsNone(initial) THEN 4
    ELSE IF cfg.sol_type = "TimeOnly" THEN 1
    ELSE IF IsSome(cfg.fixed_altitude) THEN 3
    ELSE 4

\* the filter output out is within the configured DOP thresholds
WithinThresholds(out) ==
    \/ cfg.sol_type = "TimeOnly"
    \/ /\ IsSome(cfg.gdop_threshold) => out.gdop <= Unwrap(cfg.gdop_threshold)
       /\ IsSome(cfg.tdop_threshold) => out.tdop <= Unwrap(cfg.tdop_threshold)

\* the gdop of the filter output out is beyond the configured threshold
GdopBeyondThreshold(out) ==
    /\ IsSome(cfg.gdop_threshold)
    /\ cfg.sol_type # "TimeOnly"
    /\ out.gdop > Unwrap(cfg.gdop_threshold)

\* the PVT solution sol is the fix of the filter output out around x0
IsFixOf(sol, out, x0) ==
    /\ sol.position = [ k \in 1..3 |-> out.state.x[k] + x0[k] ]
    /\ sol.dt = out.state.x[4]
    /\ sol.gdop = out.gdop
    /\ sol.q = out.q

\* the errors of resolve other than InvalidatedSolution
PerEpochErrors ==
    { "NotEnoughCandidates", "NotEnoughMatchingCandidates",
      "NotEnoughInitializationCandidates", "BancroftError", "BancroftImaginarySolution",
      "MatrixInversion", "MatrixError", "NavigationError" }

\* C1: as long as no fix has been computed no call returns Ok; the first call
\* that computes a fix returns InvalidatedSolution(FirstSolution) and stores
\* that fix as prev_solution; every later call that computes a fix within the
\* thresholds of the validator returns Ok
C1_FirstSolutionPolicy ==
    [][ /\ (IsNone(prev_solution) /\ ~call'.fix) =>
              (IsNone(prev_solution') /\ ret'.kind # "Ok")
        /\ (IsNone(prev_solution) /\ call'.fix) =>
              /\ ret' = InvalidatedSolution("FirstSolution", 0)
              /\ IsSome(prev_solution')
              /\ IsFixOf(Unwrap(prev_solution')[2], pending', Unwrap(initial'))
        /\ IsSome(prev_solution) => IsSome(prev_solution')
        /\ (IsSome(prev_solution) /\ call'.fix /\ WithinThresholds(pending')) =>
              ret'.kind = "Ok"
      ]_vars

\* C1: the second call of a solver returned Ok, after a first fix was withheld
C1_Witness == calls = 2 /\ call.fix /\ ret.kind = "Ok"

\* C2, as stated: in every solver state a fix whose gdop is beyond the
\* threshold is answered with InvalidatedSolution(GDOPOutlier) and leaves
\* prev_solution as it was
C2_GdopRejectedInEveryState ==
    [][ (call'.fix /\ GdopBeyondThreshold(pending')) =>
            /\ ret'.kind = "InvalidatedSolution"
            /\ ret'.cause = "GDOPOutlier"
            /\ prev_solution' = prev_solution
      ]_vars

\* C2, amended: when a previous solution exists, a fix whose gdop is beyond the
\* threshold is answered with InvalidatedSolution(GDOPOutlier) and leaves
\* prev_solution as it was
C2_GdopRejectedAfterFirstFix ==
    [][ (IsSome(prev_solution) /\ call'.fix /\ GdopBeyondThreshold(pending')) =>
            /\ ret'.kind = "InvalidatedSolution"
            /\ ret'.cause = "GDOPOutlier"
            /\ prev_solution' = prev_solution
      ]_vars

\* C2: a call was rejected for its gdop while a previous solution existed
C2_Witness ==
    /\ IsSome(prev_solution)
    /\ call.fix
    /\ ret.kind = "InvalidatedSolution"
    /\ ret.cause = "GDOPOutlier"
    /\ pending.gdop > Unwrap(cfg.gdop_threshold)

\* C3: the carried filter state changes only in a call that returns Ok, and
\* then to the pending state of that call; every other call, one that returns
\* InvalidatedSolution included, leaves it as it was
C3_FilterStateOnlyOnValidation ==
    [][ filter_state' # filter_state =>
            (ret'.kind = "Ok" /\ filter_state' = Some(pending'.state))
      ]_vars

\* C3: a fix was rejected while a filter state was carried: the pending state
\* is the rejected one, the carried state is not
C3_Witness ==
    /\ IsSome(filter_state)
    /\ call.fix
    /\ ret.kind = "InvalidatedSolution"
    /\ pending.state # Unwrap(filter_state)

\* C4: a call that returns an error other than InvalidatedSolution leaves
\* initial, prev_solution, prev_sv_state and the carried filter state as they
\* were
C4_ErrorsLeaveStateUntouched ==
    [][ ret'.kind \in PerEpochErrors =>
            /\ initial' = initial
            /\ prev_solution' = prev_solution
            /\ prev_sv_state' = prev_sv_state
            /\ filter_state' = filter_state
      ]_vars

\* C5: a pool whose last candidate has no orbit is solved as the pool without
\* that candidate; when the rest is too small the call ends with a
\* not-enough-candidates error
C5_NoOrbitDropped ==
    \A t \in 1..MaxT, n \in 1..MaxPool :
        LET with == resolve(Solver, cfg, t, Pool(n, t, "noorb", TRUE), Nominal, "ascending")
            without == resolve(Solver, cfg, t, Pool(n - 1, t, "none", TRUE), Nominal, "ascending")
        IN IF n - 1 >= Required
           THEN with = without
           ELSE with.ret.kind \in { "NotEnoughCandidates", "NotEnoughMatchingCandidates" }

\* C6: resolve returns NotEnoughCandidates exactly for the pools that hold
\* fewer candidates than required (4 without apriori; else 1 for TimeOnly, 3
\* with a fixed altitude, 4 otherwise), whether or not the candidates would
\* pass the filters
C6_NotEnoughCandidates ==
    \A t \in 1..MaxT, n \in 0..MaxPool, d \in { "none", "nopr" } :
        (resolve(Solver, cfg, t, Pool(n, t, d, FALSE), Nominal, "ascending").ret.kind
            = "NotEnoughCandidates")
        <=> (n < Required)

\* C6: a solver with an apriori position in TimeOnly mode, which needs one
\* candidate, returned NotEnoughCandidates
C6_Witness ==
    /\ ret.kind = "NotEnoughCandidates"
    /\ IsSome(initial)
    /\ cfg.sol_type = "TimeOnly"
    /\ Required = 1

\* C7: in SPP a pool with enough candidates, of which too few carry a
\* pseudorange, is answered with the not-enough-candidates-match-pre-fit error
C7_MissingPseudoRange ==
    cfg.method = "SPP" =>
        \A t \in 1..MaxT, n \in 0..MaxPool, last \in BOOLEAN :
            LET pool == Pool(n, t, "nopr", last)
                carrying == Len(SelectSeq(pool, LAMBDA cd : cd.pr))
            IN (n >= Required /\ carrying < Required) =>
                  resolve(Solver, cfg, t, pool, Nominal, "ascending").ret.kind
                      = "NotEnoughMatchingCandidates"

\* C7: a solver whose masks and filters reject nothing (no SNR, elevation or
\* sunlight criteria) returned the pre-fit error: its pool lacked pseudoranges
C7_Witness ==
    /\ ret.kind = "NotEnoughMatchingCandidates"
    /\ cfg.method = "SPP"
    /\ IsNone(cfg.min_snr)
    /\ IsNone(cfg.min_sv_elev)
    /\ IsNone(cfg.min_sv_sunlight_rate)

\* C8: once initial is set it stays set, and no later call runs the Bancroft
\* bootstrap
C8_InitialStaysSet ==
    [][ IsSome(initial) => (IsSome(initial') /\ ~call'.banc) ]_vars

\* C8: a solver built without apriori has bootstrapped, and a later call
\* computed a fix without running the bootstrap
C8_Witness ==
    /\ IsNone(cfg.apriori)
    /\ IsSome(initial)
    /\ call.fix
    /\ ~call.banc

\* C9: a call with an epoch earlier than that of prev_solution leaves
\* prev_solution as it was and does not return Ok
C9_DecreasingEpoch ==
    IsSome(prev_solution) =>
        \A in \in Calls :
            in.t < Unwrap(prev_solution)[1] =>
                LET r == resolve(Solver, cfg, in.t, in.pool, in.geo, "ascending")
                IN r.S.prev_solution = prev_solution /\ r.ret.kind # "Ok"

\* C10: the result of a call and the state it leaves do not depend on the
\* order in which the per-SV hash map is iterated
C10_Deterministic ==
    \A in \in Calls : \A order \in HashOrders :
        resolve(Solver, cfg, in.t, in.pool, in.geo, order)
            = resolve(Solver, cfg, in.t, in.pool, in.geo, "ascending")

\* the transmission time of the candidate cd under the modeling c: the
\* sampling epoch less the propagation time, the group delay (when modelled
\* and known) and the clock correction (when modelled)
ExpectedTx(cd, c) ==
    cd.t - Unwrap(cd.pr)
         - (IF c.sv_total_group_delay /\ IsSome(cd.tgd) THEN Unwrap(cd.tgd) ELSE 0)
         - (IF c.sv_clock_bias THEN Unwrap(cd.clock_corr) ELSE 0)

\* C11: tx_epoch on a candidate whose transmission time would not be strictly
\* earlier than its sampling epoch returns the error PhysicalNonSenseRxPriorTx;
\* whenever tx_epoch succeeds, t_tx < t and dt_tx = t - t_tx is positive
C11_RxPriorTx ==
    [][ /\ ( /\ IsSome(cand.pr)
             /\ cfg'.sv_clock_bias => IsSome(cand.clock_corr)
             /\ ~(ExpectedTx(cand, cfg') < cand.t) )
           => tx' = "PhysicalNonSenseRxPriorTx"
        /\ tx' = "ok" =>
              /\ cand'.t_tx < cand'.t
              /\ cand'.dt_tx = cand'.t - cand'.t_tx
              /\ cand'.dt_tx > 0
      ]_vars

\* C12: tx_epoch asks for a clock correction exactly when sv_clock_bias is on:
\* with the flag on and no clock correction it returns UnknownClockCorrection
\* and leaves t_tx and dt_tx as they were; with the flag off it never returns
\* that error, and a candidate without clock correction succeeds with nothing
\* subtracted for it; a missing pseudorange is reported before anything else
C12_ClockCorrectionRequired ==
    [][ /\ IsNone(cand.pr) => (tx' = "MissingPseudoRange" /\ cand' = cand)
        /\ (IsSome(cand.pr) /\ cfg'.sv_clock_bias /\ IsNone(cand.clock_corr)) =>
              /\ tx' = "UnknownClockCorrection"
              /\ cand'.t_tx = cand.t_tx
              /\ cand'.dt_tx = cand.dt_tx
        /\ (IsSome(cand.pr) /\ ~cfg'.sv_clock_bias) =>
              /\ tx' # "UnknownClockCorrection"
              /\ ExpectedTx(cand, cfg') < cand.t =>
                    (tx' = "ok" /\ cand'.t_tx = ExpectedTx(cand, cfg'))
        /\ (IsSome(cand.pr) /\ cfg'.sv_clock_bias /\ IsSome(cand.clock_corr)) =>
              /\ tx' # "UnknownClockCorrection"
              /\ tx' = "ok" => cand'.t_tx = ExpectedTx(cand, cfg')
      ]_vars

\* C12: a candidate without clock correction, whose transmission time was
\* computed with the flag off, was refused with the flag on and kept that
\* transmission time
C12_Witness ==
    /\ tx = "UnknownClockCorrection"
    /\ cfg.sv_clock_bias
    /\ IsNone(cand.clock_corr)
    /\ cand.t_tx < cand.t
    /\ cand.dt_tx > 0

\* a candidate as the orbit stage hands it to the bootstrap
BancroftCandidate(prn, t, defect) ==
    LET cd == Candidate(prn, t, defect) IN [cd EXCEPT !.state = next_at(cd, t - 1)]

\* the pools of n candidates of which the first k lack an orbit, a
\* pseudorange or a clock correction
BancroftPools ==
    { [ i \in 1..n |-> BancroftCandidate(i, t, IF i <= k THEN d ELSE "none") ] :
        t \in 1..MaxT, n \in 0..MaxPool, k \in 0..MaxPool,
        d \in { "noorb", "nopr", "noclock" } }

\* the number of candidates of the pool that have an orbit, a pseudorange and
\* a clock correction
Usable(pool) ==
    Cardinality({ i \in 1..Len(pool) :
                    pool[i].orb /\ pool[i].pr /\ pool[i].clock_corr # None })

\* C13, as stated: the bootstrap fails with BancroftError when fewer than 4
\* of the candidates it is given are usable or B cannot be inverted, with
\* BancroftImaginarySolution when the discriminant is negative, and resolves a
\* position otherwise
C13_BancroftErrors ==
    IsNone(initial) =>
        \A pool \in BancroftPools, geo \in Geometries :
            bootstrap(pool, geo) =
                IF Usable(pool) < 4 \/ geo.banc = "singular" THEN "BancroftError"
                ELSE IF geo.banc = "imaginary" THEN "BancroftImaginarySolution"
                ELSE "ok"

\* C13, amended: the bootstrap fails with NotEnoughInitializationCandidates
\* when it is given fewer than 4 candidates, with BancroftError when it is
\* given 4 or more of which fewer than 4 are usable, with MatrixInversion when
\* B cannot be inverted, with BancroftImaginarySolution when the discriminant
\* is negative, and resolves a position otherwise
C13_BancroftErrorsByCause ==
    IsNone(initial) =>
        \A pool \in BancroftPools, geo \in Geometries :
            bootstrap(pool, geo) =
                IF Len(pool) < 4 THEN "NotEnoughInitializationCandidates"
                ELSE IF Usable(pool) < 4 THEN "BancroftError"
                ELSE IF geo.banc = "singular" THEN "MatrixInversion"
                ELSE IF geo.banc = "imaginary" THEN "BancroftImaginarySolution"
                ELSE "ok"

\* C13: a call ran the bootstrap on a matrix B that cannot be inverted
C13_Witness ==
    /\ call.banc
    /\ ret.kind = "MatrixInversion"
    /\ IsNone(initial)

\* the absolute value of the residual r, a quotient by a positive weight, is
\* beyond the threshold th
Exceeds(r, th) == Abs(r.num) > th * r.den

\* C14: whatever the innovation threshold, a call whose validator finds a
\* residual beyond it (and dilutions of precision within their thresholds)
\* returns InvalidatedSolution(CodeResidual)
C14_CodeResidual ==
    [][ \A th \in 0..MaxThreshold :
          ( /\ WithinThresholds(pending')
            /\ \E idx \in DOMAIN call'.residuals : Exceeds(call'.residuals[idx], th) )
          => (ret'.kind = "InvalidatedSolution" /\ ret'.cause = "CodeResidual")
      ]_vars

\* C15: base_observations is empty after every call of resolve, whatever the
\* call returned and whether or not a base station is attached
C15_ScratchEmpty == base_observations = << >>

\* C15: a solver with a base station computed a fix, past the gathering of the
\* remote observations
C15_Witness ==
    /\ cfg.base_station
    /\ call.fix
    /\ base_observations = << >>

\* the solution sol of epoch t has the velocity and the clock drift of the
\* finite difference with the fix prev = (epoch, solution)
MovedFrom(sol, t, prev) ==
    /\ sol.velocity = [ k \in 1..3 |-> Quot(sol.position[k] - prev[2].position[k],
                                             t - prev[1]) ]
    /\ sol.d_dt = Quot(prev[2].dt - sol.dt, t - prev[1])

\* C16, as stated: every solution returned as Ok has the velocity
\* (position - previous position) / dt and the drift (previous dt - dt) / dt,
\* the previous fix being prev_solution as the call found it
C16_VelocityOfReturned ==
    [][ ret'.kind = "Ok" =>
          MovedFrom(Unwrap(ret'.sol)[2], Unwrap(ret'.sol)[1], Unwrap(prev_solution))
      ]_vars

\* C16, amended: the fix a call that returns Ok stores in prev_solution has
\* that velocity and that drift; the solution returned is the stored one
\* unless the solution type is TimeOnly or the altitude is fixed
C16_VelocityOfStored ==
    [][ ret'.kind = "Ok" =>
          /\ Unwrap(prev_solution')[1] = Unwrap(ret'.sol)[1]
          /\ MovedFrom(Unwrap(prev_solution')[2], Unwrap(prev_solution')[1],
                       Unwrap(prev_solution))
          /\ (cfg.sol_type # "TimeOnly" /\ IsNone(cfg.fixed_altitude)) =>
                Unwrap(ret'.sol)[2] = Unwrap(prev_solution')[2]
      ]_vars

\* C16: a call returned Ok with a position that differs from that of the fix
\* stored before it, two epochs earlier or later
C16_Witness ==
    /\ ret.kind = "Ok"
    /\ cfg.sol_type # "TimeOnly"
    /\ Unwrap(ret.sol)[2].velocity[1].num # 0
    /\ Unwrap(ret.sol)[2].velocity[1].den # 0

\* position and velocity of the solution sol are the zero vector
ZeroPositionVelocity(sol) ==
    /\ sol.position = << 0, 0, 0 >>
    /\ \A k \in 1..3 : sol.velocity[k].num = 0 /\ sol.velocity[k].den # 0

\* C17: position and velocity of a solution returned as Ok are both the zero
\* vector if and only if the solution type is TimeOnly
C17_ZeroIffTimeOnly ==
    ret.kind = "Ok" =>
        (ZeroPositionVelocity(Unwrap(ret.sol)[2]) <=> cfg.sol_type = "TimeOnly")

\* C17: a TimeOnly solver returned Ok, from a fix whose position is not zero
C17_Witness ==
    /\ ret.kind = "Ok"
    /\ cfg.sol_type = "TimeOnly"
    /\ Unwrap(prev_solution)[2].position # << 0, 0, 0 >>
    /\ ZeroPositionVelocity(Unwrap(ret.sol)[2])

\* the matrix G of an epoch whose (trimmed, sorted) pool holds the SVs used:
\* row i is the line of sight of the candidate that fills it
GeometryMatrix(used) ==
    [ i \in 1..8 |-> used[row_index(i - 1, Len(used), cfg.sol_type) + 1] ]

\* C18: whatever the filter and whether or not a state is carried, the Q of a
\* filter output is the inverse of G'G for the G of the epoch, and gdop and
\* pdop are the square roots of the sums of the first four and the first three
\* diagonal entries of that inverse
C18_CovarianceFromCurrentGeometry ==
    \A in \in Calls :
        LET r == resolve(Solver, cfg, in.t, in.pool, in.geo, "ascending") IN
        r.fix =>
            /\ r.S.pending.q = [ inverse |-> TRUE, g |-> GeometryMatrix(r.S.prev_used) ]
            /\ r.S.pending.gdop = in.geo.gdop
            /\ r.S.pending.pdop = in.geo.pdop

\* C19: the tdop of a filter output whose Q is the inverse of G'G is the
\* square root of the diagonal entry Q[3][3]
C19_TdopFromClockVariance ==
    \A in \in Calls :
        LET r == resolve(Solver, cfg, in.t, in.pool, in.geo, "ascending") IN
        (r.fix /\ r.S.pending.q.inverse) => r.S.pending.tdop = in.geo.sqrt_q33

\* the weights the filter was handed in the epoch that left the state st
WeightsOf(st) == st.p[Len(st.p)].w

\* C20: the weight matrix is the identity when no weighting is configured;
\* under MappingFunction every diagonal entry, the last one included, is
\* 1 / sigma^2 for the elevation of the candidate that fills that row of G
C20_WeightMatrix ==
    \A in \in Calls : \A order \in HashOrders :
        LET r == resolve(Solver, cfg, in.t, in.pool, in.geo, order)
            w == WeightsOf(r.S.pending.state)
        IN r.fix =>
              \A i \in DOMAIN w :
                  w[i] = IF IsSome(cfg.weight_matrix)
                         THEN mapping_function(ElevationOf(r.S.prev_used[i]))
                         ELSE 1

\* C21: with the filter set to None, whatever state is carried, a call
\* returns and leaves as filter output what the LSQ filter gives on the same
\* input without prior state
C21_FilterNoneBypassed ==
    cfg.filter = "None" =>
        \A in \in Calls :
            LET r == resolve(Solver, cfg, in.t, in.pool, in.geo, "ascending")
                lsq == resolve([Solver EXCEPT !.filter_state = None],
                               [cfg EXCEPT !.filter = "LSQ"],
                               in.t, in.pool, in.geo, "ascending")
            IN r.ret = lsq.ret /\ r.S.pending = lsq.S.pending

\* C21: a solver without filter that carried a state computed a fix from
\* the epoch's input alone
C21_Witness ==
    /\ cfg.filter = "None"
    /\ calls = 3
    /\ IsSome(filter_state)
    /\ ret.kind = "Ok"
    /\ Len(pending.state.p) = 1

\* C22: the PPP preset is the SPP preset with the method PPP and
\* min_sv_sunlight_rate 0.75 (interp_order 11, min_sv_elev 15, min_snr 30 and
\* the LSQ filter as in SPP)
C22_PresetPPP ==
    cfg = Unwrap(preset("SPP").config) =>
        /\ preset("PPP").status = "ok"
        /\ preset("PPP").config =
              Some([cfg EXCEPT !.method = "PPP",
                               !.min_sv_sunlight_rate = Some(Quot(3, 4))])
        /\ cfg.interp_order = 11
        /\ cfg.min_sv_elev = Some(15)
        /\ cfg.min_snr = Some(30)
        /\ cfg.filter = "LSQ"

\* the Lorentz inner product of signature (+, +, +, -)
Minkowski(a, b) == a[1] * b[1] + a[2] * b[2] + a[3] * b[3] - a[4] * b[4]

\* C23: lorentz_4_4(a, b, M) with M = diag(1, 1, 1, -1) is
\* a0.b0 + a1.b1 + a2.b2 - a3.b3, is symmetric in a and b, and is 6 for
\* a = (1, 2, 3, 4) and b = (5, 6, 7, 8)
C23_LorentzProduct ==
    IsSome(result) =>
        /\ Unwrap(result) = Minkowski(args[1], args[2])
        /\ Unwrap(result) = lorentz_4_4(args[2], args[1], m_matrix)
        /\ args = TestVectors => Unwrap(result) = 6

\* C23: the product of the vectors of the unit test was taken
C23_Witness ==
    /\ args = TestVectors
    /\ result = Some(6)

\* the pools that reach the elevation trimming: the candidates of any set of
\* SVs, with their state and attitude, in ascending or descending PRN order
TrimPools ==
    { update_attitudes([ i \in 1..Len(svs) |-> BancroftCandidate(svs[i], 1, "none") ]) :
        svs \in { Ascending(set) : set \in SUBSET (1..MaxPool) }
                \cup { Reverse(Ascending(set)) : set \in SUBSET (1..MaxPool) } }

\* C25: the elevation trimming followed by the PRN sort leaves exactly
\* min_sv_required candidates, none of them lower than a dropped one, in
\* ascending PRN order; the pool of the last input assembly is in that order
C25_BestElevationRetained ==
    /\ \A i \in 1..Len(prev_used) - 1 : prev_used[i] < prev_used[i + 1]
    /\ \A pool \in TrimPools :
          Len(pool) >= Required =>
            LET kept == sort_by_prn(retain_best_elevation(pool, Required))
                retained == { kept[i].sv : i \in 1..Len(kept) }
            IN /\ Len(kept) = Required
               /\ \A i \in 1..Len(kept) - 1 : kept[i].sv < kept[i + 1].sv
               /\ \A i \in 1..Len(kept) : \E j \in 1..Len(pool) : pool[j] = kept[i]
               /\ \A j \in 1..Len(pool) :
                     pool[j].sv \notin retained =>
                        \A i \in 1..Len(kept) :
                            Unwrap(kept[i].state).elevation >= Unwrap(pool[j].state).elevation

\* C25: of the 5 candidates of an epoch the lowest one, SV 4, was dropped
C25_Witness ==
    /\ call.fix
    /\ call.banc
    /\ prev_used = << 1, 2, 3, 5 >>

\* the current configuration under other attitude masks
MaskSettings ==
    { [cfg EXCEPT !.min_sv_elev = e, !.min_sv_azim = a, !.max_sv_azim = b] :
        e \in { None, Some(23), Some(50) },
        a \in { None, Some(100) },
        b \in { None, Some(200) } }

\* the candidate passes the elevation and azimuth masks of c
WithinMasks(c, cd) ==
    /\ ElevationOf(cd.sv) >= UnwrapOr(c.min_sv_elev, 0)
    /\ AzimuthOf(cd.sv) >= UnwrapOr(c.min_sv_azim, 0)
    /\ AzimuthOf(cd.sv) <= UnwrapOr(c.max_sv_azim, 360)

\* C26: whatever the masks, with an apriori at the start of the epoch the
\* orbit stage retains a candidate whose orbit is resolved exactly when it
\* passes the elevation and azimuth masks, and without apriori it retains
\* every such candidate and the whole epoch ends as it does without masks
C26_MasksWithApriori ==
    /\ \A in \in Calls : \A c \in MaskSettings :
          LET stage == orbit_stage(Solver, c, in.pool)
              retained == { stage[i].sv : i \in 1..Len(stage) }
          IN \A i \in 1..Len(in.pool) :
                LET cd == in.pool[i] IN
                (cd.pr /\ cd.tx /\ cd.orb) =>
                    (cd.sv \in retained <=> (IsSome(initial) => WithinMasks(c, cd)))
    /\ IsNone(initial) =>
          \A in \in Calls : \A c \in MaskSettings :
             resolve(Solver, c, in.t, in.pool, in.geo, "ascending")
               = resolve(Solver,
                         [c EXCEPT !.min_sv_elev = None, !.min_sv_azim = None,
                                   !.max_sv_azim = None],
                         in.t, in.pool, in.geo, "ascending")

\* C26: the first epoch of a solver that has an apriori and an elevation mask
\* of 15 degrees had 4 candidates or more and kept the states of SV 1, 2, 3
\* only: SV 4, 2 degrees high, was rejected
C26_Witness ==
    /\ calls = 1
    /\ IsSome(cfg.apriori)
    /\ cfg.min_sv_elev = Some(15)
    /\ ret = Err("NotEnoughMatchingCandidates")
    /\ DOMAIN prev_sv_state = { 1, 2, 3 }

\* the relativistic term the loop of resolve adds to the clock correction of
\* the candidate that the orbit stage made of cd, in units of that term
RelativisticTerm(in, sv) ==
    LET staged == orbit_stage(Solver, cfg, in.pool)
        resolved == relativistic_pool(cfg, staged)
        i == CHOOSE j \in 1..Len(staged) : staged[j].sv = sv
    IN Unwrap(resolved[i].clock_corr).duration - Unwrap(staged[i].clock_corr).duration

\* the candidates of the call whose orbit is resolved and whose clock
\* correction is flagged
Flagged(in) ==
    LET staged == orbit_stage(Solver, cfg, in.pool)
    IN { staged[i].sv : i \in { j \in 1..Len(staged) :
            /\ IsSome(staged[j].state)
            /\ Unwrap(staged[j].clock_corr).needs_relativistic_correction } }

C28_RowsReadExistingCandidates ==
    \A pool \in TrimPools :
        Len(pool) = Required =>
            \A i \in 0..7 :
                /\ row_index(i, Len(pool), cfg.sol_type) < Len(pool)
                /\ row_fault(cfg, pool, i) # "Panic"
                /\ input_new(UnwrapOr(initial, BancroftPosition), cfg, pool,
                             "ascending").status # "Panic"

\* the candidates of the call that pass the signal filters of resolve
Matching(in) ==
    LET conditioned == signal_condition_filter(cfg.method, in.pool)
    IN IF IsSome(cfg.min_snr)
       THEN signal_quality_filter(cfg.method, Unwrap(cfg.min_snr), conditioned)
       ELSE conditioned

\* the call reaches the orbit stage of resolve
ReachesOrbitStage(in) ==
    /\ Len(in.pool) >= Required
    /\ Len(Matching(in)) >= Required

\* what prev_sv_state and the velocities are after an epoch that resolved
\* orbits, for every candidate the orbit stage left with a state
SvStateCarried(in) ==
    LET staged == orbit_stage(Solver, cfg, Matching(in))
        r == resolve(Solver, cfg, in.t, in.pool, in.geo, "ascending")
    IN \A j \in { k \in 1..Len(staged) : IsSome(staged[k].state) } :
          LET sv == staged[j].sv
              state == Unwrap(staged[j].state)
          IN /\ sv \in DOMAIN r.S.prev_sv_state
             /\ r.S.prev_sv_state[sv] =
                  [ t_tx |-> staged[j].t_tx, position |-> state.position ]
             /\ sv \in DOMAIN prev_sv_state =>
                  state.velocity =
                      Some(Quot(state.position - prev_sv_state[sv].position,
                                staged[j].t_tx - prev_sv_state[sv].t_tx))

\* C29: after an epoch that resolved the orbit of a candidate, prev_sv_state
\* maps its SV to the (t_tx, position) of that epoch, whatever
\* relativistic_clock_bias is, and the next epoch that resolves the same SV
\* sets its velocity to (position - previous position) / (t_tx - previous t_tx)
C29_SvStateCarried ==
    \A in \in Calls : ReachesOrbitStage(in) => SvStateCarried(in)

\* the call returned its fix as InvalidatedSolution(FirstSolution)
ReturnedFirstSolution(r) ==
    r.kind = "InvalidatedSolution" /\ r.cause = "FirstSolution"

\* C30: a call that returns InvalidatedSolution(FirstSolution) leaves the
\* carried filter state empty, so that the filter of the next epoch runs
\* without prior, and the carried state is only ever set by a call that
\* returns Ok
C30_FirstSolutionNotCommitted ==
    [][ /\ ReturnedFirstSolution(ret') => filter_state' = None
        /\ (ReturnedFirstSolution(ret) /\ call'.fix) =>
              /\ filter_state = None
              /\ Len(pending'.state.p) = 1
        /\ IsSome(filter_state') => (ret'.kind = "Ok" \/ IsSome(filter_state)) ]_vars

\* C30: the filter has produced the fix that the call returned as
\* InvalidatedSolution(FirstSolution), and the carried state is empty
C30_Witness ==
    /\ ReturnedFirstSolution(ret)
    /\ call.fix
    /\ pending # DefaultOutput
    /\ IsSome(prev_solution)
    /\ filter_state = None

====
